---- MODULE Spec2Model ----
(***************************************************************************)
(* Freight / freight-search matching service (server.py, models.py,        *)
(* init_db.py).  The store is the freight_searches table; the operations   *)
(* are create_freight_search (POST /freight_searches/) and find_matches    *)
(* (GET /freight/{id}/find_matches/) with LIMIT/OFFSET and keyset paging.  *)
(*                                                                         *)
(* Encoding.  Prices are in tenths (300.0 -> 3000, 450.5 -> 4505), dates   *)
(* are the day of January 2022, created_at is a number of microseconds.    *)
(* The WHERE clause is evaluated in SQL's three-valued logic ("T", "F",    *)
(* "U"); a row is selected only when the clause is "T".                    *)
(***************************************************************************)
EXTENDS Integers, Sequences, FiniteSets, TLC

VARIABLES searches, clock, pending, req, resp, sess, replay, cresp

vars == <<searches, clock, pending, req, resp, sess, replay, cresp>>

-----------------------------------------------------------------------------
(* Bounds of the model *)

MaxRows == 3
MaxLimit == 2
MaxTicks == 2
MaxOffset == 1

-----------------------------------------------------------------------------
(* Values *)

\* Python None / SQL NULL of a nullable column
NULL == -1

\* a query parameter or response header that is not present
Absent == <<>>

\* microseconds per second: the resolution of datetime and of timestamptz
MICROS == 1000000

\* now() when the model starts: the last microsecond of a second
Epoch == MICROS - 1

\* the two concurrent request handlers of create_freight_search
Procs == {1, 2}

\* users seeded by init_db.seed_users_and_freights (ids 1 and 2)
Users == {1, 2}

\* freights seeded by init_db.seed_users_and_freights; the id is the index
Freights ==
    << [price |-> 3000, pickup_code |-> 10100, delivery_code |-> 20100,
        pickup_date |-> 1, delivery_date |-> 2],
       [price |-> 4505, pickup_code |-> 10100, delivery_code |-> 20200,
        pickup_date |-> 2, delivery_date |-> 3],
       [price |-> 5000, pickup_code |-> 10200, delivery_code |-> 20300,
        pickup_date |-> 3, delivery_date |-> 4] >>

\* FreightSearchBase: the request body of create_freight_search
FreightSearchBase(u, mn, mx, pc, dc, pf, pt, df, dt) ==
    [user_id |-> u, min_price |-> mn, max_price |-> mx,
     pickup_code |-> pc, delivery_code |-> dc,
     pickup_date_from |-> pf, pickup_date_to |-> pt,
     delivery_date_from |-> df, delivery_date_to |-> dt]

\* max_price is not compared with min_price
price_bounds_wrong(s) == TRUE

\* field validator of max_price
price_bounds(s) ==
    ~(s.max_price # NULL /\ s.min_price # NULL /\ s.max_price < s.min_price)

\* field validator of pickup_date_to
pickup_window(s) ==
    ~(s.pickup_date_to # NULL /\ s.pickup_date_from # NULL
      /\ s.pickup_date_to < s.pickup_date_from)

\* field validator of delivery_date_to
delivery_window(s) ==
    ~(s.delivery_date_to # NULL /\ s.delivery_date_from # NULL
      /\ s.delivery_date_to < s.delivery_date_from)

\* a request body that FreightSearchCreate accepts
Validates(s) == price_bounds(s) /\ pickup_window(s) /\ delivery_window(s)

\* the row INSERTed for a request body: id from the sequence, created_at from
\* the column's server default
FreightSearch(s, id, ts) ==
    [id |-> id, user_id |-> s.user_id,
     min_price |-> s.min_price, max_price |-> s.max_price,
     pickup_code |-> s.pickup_code, delivery_code |-> s.delivery_code,
     pickup_date_from |-> s.pickup_date_from, pickup_date_to |-> s.pickup_date_to,
     delivery_date_from |-> s.delivery_date_from,
     delivery_date_to |-> s.delivery_date_to,
     created_at |-> ts]

-----------------------------------------------------------------------------
(* Request bodies the clients send *)

\* tests/test_match_found and api_script: route and price band of freight 1
SearchA == FreightSearchBase(1, 2000, 3500, 10100, 20100, NULL, NULL, NULL, NULL)

\* the route of freight 2
SearchC == FreightSearchBase(2, NULL, 5000, 10100, 20200, NULL, NULL, NULL, NULL)

\* tests/test_no_match: a pickup code no freight has
SearchB == FreightSearchBase(1, NULL, NULL, 99999, NULL, NULL, NULL, NULL, NULL)

\* a search that constrains nothing (rows of the stress seed with no lane)
SearchAny == FreightSearchBase(1, NULL, NULL, NULL, NULL, NULL, NULL, NULL, NULL)

\* a body whose user_id is no user
SearchNoUser == FreightSearchBase(3, NULL, NULL, 10100, 20100, NULL, NULL, NULL, NULL)

Bodies == {SearchA, SearchC, SearchAny, SearchNoUser}

\* every combination of the field values below: the bodies of SpecMatch
AllBodies ==
    { FreightSearchBase(1, mn, mx, pc, dc, pf, pt, df, dt) :
        mn \in {NULL, 3000, 4505}, mx \in {NULL, 3000, 4505},
        pc \in {NULL, 10100, 10200}, dc \in {NULL, 20100, 20200, 20300},
        pf \in {NULL, 2}, pt \in {NULL, 2},
        df \in {NULL, 3}, dt \in {NULL, 3} }

-----------------------------------------------------------------------------
(* The store's three-valued logic *)

\* a OR b
or_(a, b) ==
    IF a = "T" \/ b = "T" THEN "T"
    ELSE IF a = "F" /\ b = "F" THEN "F" ELSE "U"

\* a AND b
and_(a, b) ==
    IF a = "F" \/ b = "F" THEN "F"
    ELSE IF a = "T" /\ b = "T" THEN "T" ELSE "U"

\* column IS NULL: never unknown
is_null(x) == IF x = NULL THEN "T" ELSE "F"

\* x = y: unknown when either side is NULL
sql_eq(x, y) ==
    IF x = NULL \/ y = NULL THEN "U" ELSE IF x = y THEN "T" ELSE "F"

\* x <= y
sql_le(x, y) ==
    IF x = NULL \/ y = NULL THEN "U" ELSE IF x <= y THEN "T" ELSE "F"

\* x >= y
sql_ge(x, y) ==
    IF x = NULL \/ y = NULL THEN "U" ELSE IF x >= y THEN "T" ELSE "F"

\* x < y
sql_lt(x, y) ==
    IF x = NULL \/ y = NULL THEN "U" ELSE IF x < y THEN "T" ELSE "F"

\* column.in_([v, None]) renders column IN (v, NULL), which the store
\* evaluates as column = v OR column = NULL
in_(x, v, w) == or_(sql_eq(x, v), sql_eq(x, w))

-----------------------------------------------------------------------------
(* The filter of find_matches *)

\* route_conds without the condition on delivery_code
route_conds_wrong(s, f) ==
    and_(in_(s.pickup_code, f.pickup_code, NULL), "T")

route_conds(s, f) ==
    and_(in_(s.pickup_code, f.pickup_code, NULL),
         in_(s.delivery_code, f.delivery_code, NULL))

price_conds(s, f) ==
    and_(or_(is_null(s.min_price), sql_le(s.min_price, f.price)),
         or_(is_null(s.max_price), sql_ge(s.max_price, f.price)))

pickup_conds(s, f) ==
    and_(or_(is_null(s.pickup_date_from), sql_le(s.pickup_date_from, f.pickup_date)),
         or_(is_null(s.pickup_date_to), sql_ge(s.pickup_date_to, f.pickup_date)))

delivery_conds(s, f) ==
    and_(or_(is_null(s.delivery_date_from),
             sql_le(s.delivery_date_from, f.delivery_date)),
         or_(is_null(s.delivery_date_to),
             sql_ge(s.delivery_date_to, f.delivery_date)))

\* conds = [*route_conds, *price_conds, *pickup_conds, *delivery_conds]
conds(s, f) ==
    and_(and_(route_conds(s, f), price_conds(s, f)),
         and_(pickup_conds(s, f), delivery_conds(s, f)))

\* keyset that lets every row through
keyset_wrong(s, before_ts, before_id) == "T"

\* keyset with id <= before_id: the cursor row is selected again
keyset_dup(s, before_ts, before_id) ==
    or_(sql_lt(s.created_at, before_ts),
        and_(sql_eq(s.created_at, before_ts), sql_le(s.id, before_id)))

\* (created_at, id) < (before_ts, before_id)
keyset(s, before_ts, before_id) ==
    or_(sql_lt(s.created_at, before_ts),
        and_(sql_eq(s.created_at, before_ts), sql_lt(s.id, before_id)))

-----------------------------------------------------------------------------
(* The cursor on the wire *)

\* isoformat that drops the microseconds
isoformat_wrong(ts) == <<ts \div MICROS>>

\* datetime.isoformat(): seconds, and the microseconds unless they are zero
isoformat(ts) ==
    IF ts % MICROS = 0 THEN <<ts \div MICROS>>
    ELSE <<ts \div MICROS, ts % MICROS>>

\* the before_ts query parameter parsed as a datetime
parse_ts(w) ==
    IF Len(w) = 1 THEN w[1] * MICROS ELSE w[1] * MICROS + w[2]

RECURSIVE str(_)
\* str(last.id): the decimal digits
str(n) == IF n < 10 THEN <<n>> ELSE str(n \div 10) \o <<n % 10>>

RECURSIVE parse_int(_)
\* the before_id query parameter parsed as an int
parse_int(w) ==
    IF Len(w) = 1 THEN w[1]
    ELSE parse_int(SubSeq(w, 1, Len(w) - 1)) * 10 + w[Len(w)]

\* the character '-' of a query parameter
MINUS == 45

\* a limit or offset query parameter parsed as an int
query_int(w) ==
    IF w[1] = MINUS THEN 0 - parse_int(SubSeq(w, 2, Len(w))) ELSE parse_int(w)

\* Query(default, ...): the default when the parameter is not sent
Query(default, w) == IF w = Absent THEN default ELSE query_int(w)

\* no X-Next-Before-Ts and no X-Next-Before-Id
NoHeaders == [ts |-> Absent, id |-> Absent]

-----------------------------------------------------------------------------
(* ORDER BY, LIMIT, OFFSET *)

\* order_by with the id ascending
order_by_wrong(a, b) ==
    \/ a.created_at > b.created_at
    \/ a.created_at = b.created_at /\ a.id < b.id

\* a sorts before b under ORDER BY created_at DESC, id DESC
order_by(a, b) ==
    \/ a.created_at > b.created_at
    \/ a.created_at = b.created_at /\ a.id > b.id

RECURSIVE Sorted(_, _)
\* the ids of S in the order of order_by
Sorted(store, S) ==
    IF S = {} THEN <<>>
    ELSE LET m == CHOOSE i \in S :
                    \A j \in S \ {i} : order_by(store[i], store[j])
         IN  <<m>> \o Sorted(store, S \ {m})

Min(a, b) == IF a <= b THEN a ELSE b

\* the offset is not applied
limit_offset_wrong(q, limit, offset) ==
    SubSeq(q, 1, Min(Len(q), limit))

\* .limit(limit).offset(offset)
limit_offset(q, limit, offset) ==
    SubSeq(q, offset + 1, Min(Len(q), offset + limit))

\* headers set for every page that is not empty
headers_wrong(store, rows, limit) ==
    IF Len(rows) > 0
    THEN [ts |-> isoformat(store[rows[Len(rows)]].created_at),
          id |-> str(rows[Len(rows)])]
    ELSE NoHeaders

\* the next-keyset cursor, set when the page is full
headers(store, rows, limit) ==
    IF Len(rows) = limit
    THEN [ts |-> isoformat(store[rows[Len(rows)]].created_at),
          id |-> str(rows[Len(rows)])]
    ELSE NoHeaders

\* before_id alone applied as a bound on id
select_half(store, f, limit, offset, before_ts, before_id) ==
    LET hit == { i \in 1..Len(store) :
                   /\ conds(store[i], f) = "T"
                   /\ (before_ts # Absent /\ before_id # Absent)
                        => keyset(store[i], parse_ts(before_ts),
                                  parse_int(before_id)) = "T"
                   /\ (before_ts = Absent /\ before_id # Absent)
                        => i < parse_int(before_id) }
    IN  limit_offset(Sorted(store, hit), limit, offset)

\* the keyset cursor takes precedence: no offset when a cursor is given
select_keyset_first(store, f, limit, offset, before_ts, before_id) ==
    LET hit == { i \in 1..Len(store) :
                   /\ conds(store[i], f) = "T"
                   /\ (before_ts # Absent /\ before_id # Absent)
                        => keyset(store[i], parse_ts(before_ts),
                                  parse_int(before_id)) = "T" }
    IN  limit_offset(Sorted(store, hit), limit,
                     IF before_ts # Absent /\ before_id # Absent
                     THEN 0 ELSE offset)

\* the rows the query of find_matches selects, as ids in page order
select(store, f, limit, offset, before_ts, before_id) ==
    LET hit == { i \in 1..Len(store) :
                   /\ conds(store[i], f) = "T"
                   /\ (before_ts # Absent /\ before_id # Absent)
                        => keyset(store[i], parse_ts(before_ts),
                                  parse_int(before_id)) = "T" }
    IN  limit_offset(Sorted(store, hit), limit, offset)

\* a freight that does not exist answered as a freight with no matches
find_matches_lenient(store, freight_id, limit, offset, before_ts, before_id) ==
    IF limit < 1 \/ limit > 1000 \/ offset < 0
    THEN [status |-> 422, rows |-> <<>>, headers |-> NoHeaders]
    ELSE IF freight_id \notin DOMAIN Freights
    THEN [status |-> 200, rows |-> <<>>, headers |-> NoHeaders]
    ELSE LET rows == select(store, Freights[freight_id], limit, offset,
                            before_ts, before_id)
         IN  [status |-> 200, rows |-> rows,
              headers |-> headers(store, rows, limit)]

\* limit with no upper bound
find_matches_unbounded(store, freight_id, limit, offset, before_ts, before_id) ==
    IF limit < 1 \/ offset < 0
    THEN [status |-> 422, rows |-> <<>>, headers |-> NoHeaders]
    ELSE IF freight_id \notin DOMAIN Freights
    THEN [status |-> 404, rows |-> <<>>, headers |-> NoHeaders]
    ELSE LET rows == select(store, Freights[freight_id], limit, offset,
                            before_ts, before_id)
         IN  [status |-> 200, rows |-> rows,
              headers |-> headers(store, rows, limit)]

\* GET /freight/{freight_id}/find_matches/: the response
find_matches(store, freight_id, limit, offset, before_ts, before_id) ==
    IF limit < 1 \/ limit > 1000 \/ offset < 0
    THEN [status |-> 422, rows |-> <<>>, headers |-> NoHeaders]
    ELSE IF freight_id \notin DOMAIN Freights
    THEN [status |-> 404, rows |-> <<>>, headers |-> NoHeaders]
    ELSE LET rows == select(store, Freights[freight_id], limit, offset,
                            before_ts, before_id)
         IN  [status |-> 200, rows |-> rows,
              headers |-> headers(store, rows, limit)]

-----------------------------------------------------------------------------
(* State *)

\* no find_matches request made yet
NoRequest ==
    [freight_id |-> 0, limit |-> 0, offset |-> 0,
     before_ts |-> Absent, before_id |-> Absent,
     limit_q |-> Absent, offset_q |-> Absent]

NoResponse == [status |-> 0, rows |-> <<>>, headers |-> NoHeaders]

\* the client is in no paging session
NoSession ==
    [phase |-> "none", mode |-> "none", freight_id |-> 0, limit |-> 0,
     pages |-> <<>>, base |-> 0, late |-> TRUE]

\* no create_freight_search request answered yet.  sent: the request body;
\* body: the response body
NoCreate == [status |-> 0, sent |-> <<>>, body |-> <<>>]

\* FreightSearchResponse: the fields of the response of create_freight_search
FreightSearchResponse(row) ==
    [id |-> row.id, user_id |-> row.user_id,
     min_price |-> row.min_price, max_price |-> row.max_price,
     pickup_code |-> row.pickup_code, delivery_code |-> row.delivery_code,
     pickup_date_from |-> row.pickup_date_from,
     pickup_date_to |-> row.pickup_date_to,
     delivery_date_from |-> row.delivery_date_from,
     delivery_date_to |-> row.delivery_date_to]

\* the last request has not been repeated.  seen: the number of rows stored
\* when the last request was served; at: when its repetition was served;
\* later: every row stored since the last request has a created_at after
\* the request's before_ts
NoReplay ==
    [state |-> "none", resp |-> NoResponse, later |-> TRUE, seen |-> 0, at |-> 0]

\* the freight ids the clients ask for: the seeded ones and one that is none
FreightIds == 1..(Len(Freights) + 1)

\* the freights the paging sessions are about
SessionFreights == {1, 2}

Limits == 1..MaxLimit

\* a paging session over MaxRows rows needs at most MaxRows + 1 requests
MaxPages == MaxRows + 2

\* create_freight_search requests that have begun their transaction
InFlight == {p \in Procs : pending[p] # <<>>}

\* searches:  the freight_searches table, in INSERT order (row i has id i)
\* clock:     the store's now()
\* pending:   per handler of create_freight_search, the open transaction
\* req, resp: the last find_matches request and its response
\* sess:      the paging session the last request belongs to
\* replay:    the response to a repetition of the last request
\* cresp:     the last response of create_freight_search
Init ==
    /\ searches = <<>>
    /\ clock = Epoch
    /\ pending = [p \in Procs |-> <<>>]
    /\ req = NoRequest
    /\ resp = NoResponse
    /\ sess = NoSession
    /\ replay = NoReplay
    /\ cresp = NoCreate

-----------------------------------------------------------------------------
(* Operations *)

\* time passes at the store, a microsecond at a time
Tick ==
    /\ clock < Epoch + MaxTicks
    /\ clock' = clock + 1
    /\ UNCHANGED <<searches, pending, req, resp, sess, replay, cresp>>

\* the user of the body is not looked up
CreateBegin_anyuser(p, s) ==
    /\ pending[p] = <<>>
    /\ Len(searches) + Cardinality(InFlight) < MaxRows
    /\ pending' = IF Validates(s)
                  THEN [pending EXCEPT ![p] = <<[search |-> s, now |-> clock]>>]
                  ELSE pending
    /\ cresp' = IF ~Validates(s)
                THEN [status |-> 422, sent |-> <<s>>, body |-> <<>>]
                ELSE cresp
    /\ UNCHANGED <<searches, clock, req, resp, sess, replay>>

\* create_freight_search up to db.get(User): a body that fails a validator
\* is answered with 422 before the handler runs; otherwise the session begins
\* its transaction (now() is the transaction's start time) and an unknown
\* user ends the request with 404
CreateBegin(p, s) ==
    /\ pending[p] = <<>>
    /\ Len(searches) + Cardinality(InFlight) < MaxRows
    /\ pending' = IF Validates(s) /\ s.user_id \in Users
                  THEN [pending EXCEPT ![p] = <<[search |-> s, now |-> clock]>>]
                  ELSE pending
    /\ cresp' = IF ~Validates(s)
                THEN [status |-> 422, sent |-> <<s>>, body |-> <<>>]
                ELSE IF s.user_id \notin Users
                THEN [status |-> 404, sent |-> <<s>>, body |-> <<>>]
                ELSE cresp
    /\ UNCHANGED <<searches, clock, req, resp, sess, replay>>

\* create_freight_search from db.add to the return: commit() flushes the
\* INSERT, which takes the next id and the transaction's now()
CreateCommit(p) ==
    /\ pending[p] # <<>>
    /\ LET t == pending[p][1]
           row == FreightSearch(t.search, Len(searches) + 1, t.now)
       IN  /\ searches' = Append(searches, row)
           /\ sess' = [sess EXCEPT !.late =
                         @ /\ \A i \in 1..Len(searches) :
                                  searches[i].created_at <= row.created_at]
           /\ replay' = [replay EXCEPT !.later =
                           @ /\ (req.before_ts # Absent
                                   => row.created_at > parse_ts(req.before_ts))]
           /\ cresp' = [status |-> 200, sent |-> <<t.search>>,
                        body |-> <<FreightSearchResponse(row)>>]
    /\ pending' = [pending EXCEPT ![p] = <<>>]
    /\ UNCHANGED <<clock, req, resp>>

\* one find_matches request; limit_q and offset_q are the query parameters
\* as sent.  sess follows the client: a request with no cursor and no offset
\* opens a session; a request that passes the headers of the previous
\* response continues it by keyset, a request with no cursor whose offset is
\* the number of rows received continues it by offset; the session ends with
\* the first page that is not full
Call(freight_id, limit_q, offset_q, before_ts, before_id) ==
    LET limit == Query(200, limit_q)
        offset == Query(0, offset_q)
        r == find_matches(searches, freight_id, limit, offset,
                          before_ts, before_id)
        first == before_ts = Absent /\ before_id = Absent /\ offset = 0
        next == /\ sess.phase = "open" /\ sess.mode # "offset"
                /\ freight_id = sess.freight_id /\ limit = sess.limit
                /\ offset = 0
                /\ before_ts = resp.headers.ts /\ before_id = resp.headers.id
        skip == /\ sess.phase = "open" /\ sess.mode # "keyset"
                /\ freight_id = sess.freight_id /\ limit = sess.limit
                /\ offset = Len(sess.pages) * sess.limit
                /\ before_ts = Absent /\ before_id = Absent
        phase == IF r.headers = NoHeaders THEN "done" ELSE "open"
    IN  /\ req' = [freight_id |-> freight_id, limit |-> limit,
                   offset |-> offset,
                   before_ts |-> before_ts, before_id |-> before_id,
                   limit_q |-> limit_q, offset_q |-> offset_q]
        /\ resp' = r
        /\ sess' = IF r.status # 200 THEN NoSession
                   ELSE IF first
                   THEN [phase |-> phase, mode |-> "first",
                         freight_id |-> freight_id,
                         limit |-> limit, pages |-> <<r.rows>>,
                         base |-> Len(searches), late |-> TRUE]
                   ELSE IF next
                   THEN [sess EXCEPT !.phase = phase, !.mode = "keyset",
                                     !.pages = Append(@, r.rows)]
                   ELSE IF skip
                   THEN [sess EXCEPT !.phase = phase, !.mode = "offset",
                                     !.pages = Append(@, r.rows)]
                   ELSE NoSession
        /\ replay' = [NoReplay EXCEPT !.seen = Len(searches)]
        /\ UNCHANGED <<searches, clock, pending, cresp>>

\* the first page of a paging session
FirstPage ==
    \E freight_id \in SessionFreights, limit \in Limits :
        Call(freight_id, str(limit), Absent, Absent, Absent)

\* the next page: the client passes X-Next-Before-Ts and X-Next-Before-Id
NextPage ==
    /\ sess.phase = "open" /\ sess.mode # "offset"
    /\ Len(sess.pages) < MaxPages
    /\ Call(sess.freight_id, str(sess.limit), Absent,
            resp.headers.ts, resp.headers.id)

\* the next page by offset: the client skips the rows it has received
OffsetPage ==
    /\ sess.phase = "open" /\ sess.mode # "keyset"
    /\ Len(sess.pages) < MaxPages
    /\ Call(sess.freight_id, str(sess.limit),
            str(Len(sess.pages) * sess.limit), Absent, Absent)

\* the client passes the headers of the last response and an offset as well
SkipPage ==
    /\ resp.status = 200 /\ resp.headers # NoHeaders
    /\ \E k \in 1..MaxOffset :
          Call(req.freight_id, str(req.limit), str(k),
               resp.headers.ts, resp.headers.id)

\* the client sends the last keyset request once more
Replay ==
    /\ resp.status = 200
    /\ req.before_ts # Absent /\ req.before_id # Absent
    /\ replay.state = "none"
    /\ replay' = [replay EXCEPT
                    !.state = "done",
                    !.at = Len(searches),
                    !.resp = find_matches(searches, req.freight_id, req.limit,
                                          req.offset, req.before_ts,
                                          req.before_id)]
    /\ UNCHANGED <<searches, clock, pending, req, resp, sess, cresp>>

Next ==
    \/ Tick
    \/ \E p \in Procs, s \in Bodies : CreateBegin(p, s)
    \/ \E p \in Procs : CreateCommit(p)
    \/ FirstPage
    \/ NextPage
    \/ Replay

Spec == Init /\ [][Next]_vars

-----------------------------------------------------------------------------
(* Paging by offset, and by cursor and offset together *)

NextOffset ==
    \/ Tick
    \/ \E p \in Procs, s \in Bodies : CreateBegin(p, s)
    \/ \E p \in Procs : CreateCommit(p)
    \/ FirstPage
    \/ OffsetPage
    \/ SkipPage

SpecOffset == Init /\ [][NextOffset]_vars

-----------------------------------------------------------------------------
(* create_freight_search on its own *)

\* max_price below min_price
SearchBadPrice ==
    FreightSearchBase(1, 3500, 2000, 10100, 20100, NULL, NULL, NULL, NULL)

\* pickup_date_to before pickup_date_from
SearchBadPickup ==
    FreightSearchBase(1, NULL, NULL, 10100, 20100, 2, 1, NULL, NULL)

\* delivery_date_to before delivery_date_from
SearchBadDelivery ==
    FreightSearchBase(2, NULL, NULL, NULL, NULL, NULL, NULL, 3, 2)

\* the three ranges at their least: each upper bound equal to the lower
SearchPoint ==
    FreightSearchBase(2, 3000, 3000, 10100, 20100, 1, 1, 2, 2)

\* an inverted price range sent for a user that does not exist
SearchBadNoUser ==
    FreightSearchBase(3, 3500, 2000, NULL, NULL, NULL, NULL, NULL, NULL)

CreateBodies ==
    {SearchA, SearchAny, SearchNoUser, SearchPoint,
     SearchBadPrice, SearchBadPickup, SearchBadDelivery, SearchBadNoUser}

NextCreate ==
    \/ Tick
    \/ \E p \in Procs, s \in CreateBodies : CreateBegin(p, s)
    \/ \E p \in Procs : CreateCommit(p)

SpecCreate == Init /\ [][NextCreate]_vars

-----------------------------------------------------------------------------
(* The filter on its own: one stored search, any request *)

Offsets == 0..MaxOffset

\* before_ts values a client may send: none, the row's created_at, a later one
CursorTs == {Absent, isoformat(Epoch), isoformat(Epoch + 1)}

\* before_id values a client may send: none, the row's id, the next id
CursorIds == {Absent, str(1), str(2)}

\* the table holds one search created through create_freight_search
InitMatch ==
    /\ searches \in { <<FreightSearch(s, 1, Epoch)>> :
                         s \in {b \in AllBodies : Validates(b)} }
    /\ clock = Epoch
    /\ pending = [p \in Procs |-> <<>>]
    /\ req = NoRequest
    /\ resp = NoResponse
    /\ sess = NoSession
    /\ replay = NoReplay
    /\ cresp = NoCreate

\* one find_matches request with any parameters against the stored search
AnyCall ==
    /\ req = NoRequest
    /\ \E freight_id \in FreightIds, limit \in Limits, offset \in Offsets,
          before_ts \in CursorTs, before_id \in CursorIds :
           Call(freight_id, str(limit), str(offset), before_ts, before_id)

NextMatch == AnyCall

SpecMatch == InitMatch /\ [][NextMatch]_vars

-----------------------------------------------------------------------------
(* find_matches as a function of the table and of the query parameters *)

\* tables of up to MaxRows committed searches, ids in order of commit and
\* created_at any instant of the model
Tables ==
    UNION { [1..n -> {FreightSearch(s, 0, ts) :
                        s \in {SearchA, SearchC},
                        ts \in Epoch..(Epoch + MaxTicks)}] : n \in 0..MaxRows }

\* limit parameters a client may send: none, the limits of the model, and
\* the values at and next to the bounds of Query(200, ge=1, le=1000)
LimitParams ==
    {Absent, str(0), str(1000), str(1001)} \cup {str(l) : l \in Limits}

\* offset parameters a client may send: none, the offsets of the model, -1
OffsetParams == {Absent, <<MINUS, 1>>} \cup {str(o) : o \in Offsets}

InitQuery ==
    /\ \E tb \in Tables :
          searches = [i \in 1..Len(tb) |-> [tb[i] EXCEPT !.id = i]]
    /\ clock = Epoch + MaxTicks
    /\ pending = [p \in Procs |-> <<>>]
    /\ req = NoRequest
    /\ resp = NoResponse
    /\ sess = NoSession
    /\ replay = NoReplay
    /\ cresp = NoCreate

\* one find_matches request with any parameters against the table
QueryCall ==
    /\ req = NoRequest
    /\ \E freight_id \in FreightIds, limit_q \in LimitParams,
          offset_q \in OffsetParams,
          before_ts \in CursorTs, before_id \in CursorIds :
           Call(freight_id, limit_q, offset_q, before_ts, before_id)

NextQuery == QueryCall

SpecQuery == InitQuery /\ [][NextQuery]_vars

-----------------------------------------------------------------------------
(* What the specification says of the filter *)

Range(q) == {q[k] : k \in 1..Len(q)}

Route(s, f) ==
    /\ s.pickup_code = NULL \/ s.pickup_code = f.pickup_code
    /\ s.delivery_code = NULL \/ s.delivery_code = f.delivery_code

PriceBand(s, f) ==
    /\ s.min_price = NULL \/ s.min_price <= f.price
    /\ s.max_price = NULL \/ s.max_price >= f.price

PickupWindow(s, f) ==
    /\ s.pickup_date_from = NULL \/ s.pickup_date_from <= f.pickup_date
    /\ s.pickup_date_to = NULL \/ s.pickup_date_to >= f.pickup_date

DeliveryWindow(s, f) ==
    /\ s.delivery_date_from = NULL \/ s.delivery_date_from <= f.delivery_date
    /\ s.delivery_date_to = NULL \/ s.delivery_date_to >= f.delivery_date

Matches(s, f) ==
    Route(s, f) /\ PriceBand(s, f) /\ PickupWindow(s, f) /\ DeliveryWindow(s, f)

Unconstrained(s) ==
    /\ s.min_price = NULL /\ s.max_price = NULL
    /\ s.pickup_code = NULL /\ s.delivery_code = NULL
    /\ s.pickup_date_from = NULL /\ s.pickup_date_to = NULL
    /\ s.delivery_date_from = NULL /\ s.delivery_date_to = NULL

\* the last request was answered with a page, had no cursor and no offset,
\* and its limit was at least the number of stored searches
WholeTable ==
    /\ resp.status = 200
    /\ req.before_ts = Absent /\ req.before_id = Absent
    /\ req.offset = 0
    /\ req.limit >= Len(searches)

\* C1: a request for the whole table returns a stored search exactly when
\* the search satisfies route, price band, pickup window and delivery window
\* of the freight, a null field constraining nothing.
C1_FilterIsConjunction ==
    WholeTable =>
        \A i \in 1..Len(searches) :
            i \in Range(resp.rows)
                <=> Matches(searches[i], Freights[req.freight_id])

\* C2: a request for the whole table returns every stored search whose
\* optional fields are all null, whatever the freight.
C2_UnconstrainedMatches ==
    WholeTable =>
        \A i \in 1..Len(searches) :
            Unconstrained(searches[i]) => i \in Range(resp.rows)

\* C7: no page, whatever limit, offset and cursor of the request, holds a
\* search whose pickup_code is set and differs from the freight's, nor one
\* whose delivery_code is set and differs from the freight's.
C7_RouteExact ==
    resp.status = 200 =>
        \A k \in 1..Len(resp.rows) :
            LET s == searches[resp.rows[k]]
                f == Freights[req.freight_id]
            IN  /\ s.pickup_code = NULL \/ s.pickup_code = f.pickup_code
                /\ s.delivery_code = NULL \/ s.delivery_code = f.delivery_code

\* C7 witness: a request for the whole table was answered with an empty page
\* although the stored search fails nothing but the pickup code
C7_Witness ==
    /\ WholeTable
    /\ resp.rows = <<>>
    /\ \E i \in 1..Len(searches) :
          LET s == searches[i]
              f == Freights[req.freight_id]
          IN  /\ s.pickup_code # NULL /\ s.pickup_code # f.pickup_code
              /\ s.delivery_code = f.delivery_code
              /\ PriceBand(s, f) /\ PickupWindow(s, f) /\ DeliveryWindow(s, f)

\* C8: a request for the whole table returns a search whose min_price, or
\* whose max_price, equals the freight's price when its other fields are
\* satisfied or null, and returns no search whose min_price is above or whose
\* max_price is below the freight's price.
C8_PriceInclusive ==
    WholeTable =>
        \A i \in 1..Len(searches) :
            LET s == searches[i]
                f == Freights[req.freight_id]
            IN  /\ ( /\ s.min_price = f.price \/ s.max_price = f.price
                     /\ Matches(s, f) )
                      => i \in Range(resp.rows)
                /\ ( \/ s.min_price # NULL /\ s.min_price > f.price
                     \/ s.max_price # NULL /\ s.max_price < f.price )
                      => i \notin Range(resp.rows)

-----------------------------------------------------------------------------
(* Keyset paging sessions *)

RECURSIVE Flat(_)
\* the rows of a session's pages, one page after the other
Flat(pages) ==
    IF pages = <<>> THEN <<>> ELSE pages[1] \o Flat(SubSeq(pages, 2, Len(pages)))

\* the stored searches the filter of find_matches selects for a freight
Selected(freight_id) ==
    {i \in 1..Len(searches) : conds(searches[i], Freights[freight_id]) = "T"}

\* row a is strictly below row b in the pair (created_at, id)
Below(a, b) ==
    \/ searches[a].created_at < searches[b].created_at
    \/ searches[a].created_at = searches[b].created_at /\ a < b

\* each of the ids occurs exactly once in q
ExactlyOnce(ids, q) ==
    \A i \in ids : Cardinality({k \in 1..Len(q) : q[k] = i}) = 1

\* the session has ended and the table is as it was when it began
FixedTable == sess.phase = "done" /\ sess.base = Len(searches)

\* two of the selected searches were created at the same time
TiedRows(freight_id) ==
    \E i, j \in Selected(freight_id) :
        i # j /\ searches[i].created_at = searches[j].created_at

\* C3: over a table that does not change, a session that follows the next
\* cursor until a response has none returns the selected searches, each
\* exactly once, and nothing else, for every limit.
C3_Completeness ==
    FixedTable =>
        /\ Range(Flat(sess.pages)) = Selected(sess.freight_id)
        /\ ExactlyOnce(Selected(sess.freight_id), Flat(sess.pages))

\* C3 witness: a session of three pages or more has ended over a table that
\* holds selected searches with equal created_at
C3_Witness ==
    /\ FixedTable
    /\ Len(sess.pages) >= 3
    /\ TiedRows(sess.freight_id)

\* C4: when every search stored since a session began has a created_at not
\* before that of any search stored earlier, the ended session has returned
\* every selected search that existed when it began exactly once, and no
\* page of the session holds a search stored after it began.
C4_StableUnderInsert ==
    (sess.phase # "none" /\ sess.late) =>
        /\ \A k \in 1..Len(sess.pages) :
              \A i \in Range(sess.pages[k]) : i <= sess.base
        /\ sess.phase = "done" =>
              ExactlyOnce(Selected(sess.freight_id) \cap 1..sess.base,
                          Flat(sess.pages))

\* C4 witness: a session of two pages or more has ended, a selected search
\* was stored after its first and before its last request, with a created_at
\* not before any other
C4_Witness ==
    /\ sess.phase = "done" /\ sess.late
    /\ Len(sess.pages) >= 2
    /\ replay.seen > sess.base
    /\ \E i \in Selected(sess.freight_id) : i > sess.base /\ i <= replay.seen

\* C5: the rows of every page are strictly decreasing in (created_at, id),
\* every row of a later page of a session is strictly below the last row of
\* the page before it, and no two pages of a session share a row.
C5_Ordering ==
    /\ resp.status = 200 =>
          \A k \in 1..(Len(resp.rows) - 1) :
              Below(resp.rows[k + 1], resp.rows[k])
    /\ \A k \in 2..Len(sess.pages) :
          /\ sess.pages[k - 1] # <<>>
          /\ \A i \in Range(sess.pages[k]) :
                Below(i, sess.pages[k - 1][Len(sess.pages[k - 1])])
    /\ \A k, l \in 1..Len(sess.pages) :
          k # l => Range(sess.pages[k]) \cap Range(sess.pages[l]) = {}

\* C5 witness: the first page of a session holds two rows, the second page
\* holds a row, and all of them have the same created_at
C5_Witness ==
    /\ Len(sess.pages) >= 2
    /\ Len(sess.pages[1]) >= 2
    /\ sess.pages[2] # <<>>
    /\ \A i \in Range(sess.pages[1]) \cup Range(sess.pages[2]) :
          searches[i].created_at = searches[sess.pages[1][1]].created_at

\* C6: a page carries both cursor headers when it holds exactly limit rows,
\* and they then parse to the created_at and id of its last row; a page of
\* fewer rows carries none.  With one selected search and limit 1 the first
\* page is that search, with a cursor, and the page for that cursor is empty
\* and has no cursor.
C6_CursorIffFull ==
    /\ resp.status = 200 =>
          IF Len(resp.rows) = req.limit
          THEN /\ resp.headers.ts # Absent /\ resp.headers.id # Absent
               /\ parse_ts(resp.headers.ts)
                     = searches[resp.rows[Len(resp.rows)]].created_at
               /\ parse_int(resp.headers.id) = resp.rows[Len(resp.rows)]
          ELSE resp.headers = NoHeaders
    /\ ( /\ sess.phase # "none"
         /\ sess.limit = 1
         /\ sess.base = Len(searches)
         /\ Cardinality(Selected(sess.freight_id)) = 1 ) =>
            /\ Range(sess.pages[1]) = Selected(sess.freight_id)
            /\ Len(sess.pages) = 1 => sess.phase = "open"
            /\ Len(sess.pages) >= 2 =>
                  /\ Len(sess.pages) = 2
                  /\ sess.pages[2] = <<>>
                  /\ sess.phase = "done"

\* C6 witness: with limit 1, one selected search and another search that is
\* not selected, the session has ended with that search and an empty page
C6_Witness ==
    /\ sess.phase = "done" /\ sess.limit = 1
    /\ sess.base = Len(searches) /\ Len(searches) >= 2
    /\ Cardinality(Selected(sess.freight_id)) = 1
    /\ Len(sess.pages) = 2
    /\ resp.rows = <<>> /\ resp.headers = NoHeaders

\* C9: the first page for a freight, taken with any limit right after a
\* search that the freight satisfies was created, holds that search.
C9_CreatedIsVisible ==
    ( /\ sess.phase # "none"
      /\ Len(sess.pages) = 1
      /\ sess.base = Len(searches)
      /\ Len(searches) >= 1
      /\ Matches(searches[Len(searches)], Freights[sess.freight_id]) )
        => Len(searches) \in Range(sess.pages[1])

\* C10: a keyset request sent twice, with the same cursor and limit, gets the
\* same rows and the same next cursor both times, also when searches with a
\* created_at after the cursor's were stored in between.
C10_ReplayIdempotent ==
    (replay.state = "done" /\ replay.later) => replay.resp = resp

\* C10 witness: a keyset request that returned rows was repeated after a
\* selected search with a later created_at had been stored
C10_Witness ==
    /\ replay.state = "done" /\ replay.later
    /\ resp.rows # <<>>
    /\ \E i \in Selected(req.freight_id) : i > replay.seen /\ i <= replay.at

\* the request was answered as a freight that does not exist is answered
NotFound == resp.status = 404 /\ resp.rows = <<>> /\ resp.headers = NoHeaders

\* C11 as stated: a request for a freight_id that is no Freight is answered
\* with 404, no rows and no cursor headers, whatever its limit, offset and
\* cursor are.
C11_NotFoundAlways ==
    (req # NoRequest /\ req.freight_id \notin DOMAIN Freights) => NotFound

\* C11: a request for a freight_id that is no Freight, with limit in 1..1000
\* (or omitted) and offset >= 0 (or omitted), is answered with 404, no rows
\* and no cursor headers, whatever its cursor is; and only such a request is
\* answered with 404.
C11_NotFound ==
    /\ ( /\ req # NoRequest
         /\ req.freight_id \notin DOMAIN Freights
         /\ req.limit \in 1..1000
         /\ req.offset >= 0 ) => NotFound
    /\ resp.status = 404 => req.freight_id \notin DOMAIN Freights

\* C11 witness: a request with a whole cursor and an offset for a freight
\* that does not exist, over a table that holds searches, was answered 404
C11_Witness ==
    /\ req.freight_id \notin DOMAIN Freights
    /\ req.before_ts # Absent /\ req.before_id # Absent
    /\ req.offset = 1 /\ req.limit = 1
    /\ Len(searches) >= 2
    /\ NotFound

\* the request was rejected as invalid: no rows, no cursor headers
InvalidArgument ==
    resp.status = 422 /\ resp.rows = <<>> /\ resp.headers = NoHeaders

\* C14: an omitted limit is 200 and an omitted offset is 0; a request whose
\* limit is outside 1..1000 or whose offset is negative is rejected with 422
\* whether or not the freight exists (the freight is the first thing read
\* from the store), and no other request is; a page holds at most limit rows.
C14_Bounds ==
    req # NoRequest =>
        /\ req.limit_q = Absent => req.limit = 200
        /\ req.offset_q = Absent => req.offset = 0
        /\ req.limit_q # Absent => req.limit = query_int(req.limit_q)
        /\ req.offset_q # Absent => req.offset = query_int(req.offset_q)
        /\ (req.limit \notin 1..1000 \/ req.offset < 0) <=> InvalidArgument
        /\ resp.status # 422 =>
              resp.status = IF req.freight_id \in DOMAIN Freights
                            THEN 200 ELSE 404
        /\ resp.status = 200 =>
              /\ Len(resp.rows) <= req.limit
              /\ (req.before_ts = Absent \/ req.before_id = Absent) =>
                    LET n == Cardinality(Selected(req.freight_id))
                    IN  Len(resp.rows)
                           = Min(req.limit,
                                 IF n > req.offset THEN n - req.offset ELSE 0)

\* C14 witness: limit 1001 for a freight that has two stored matches is
\* rejected
C14_Witness ==
    /\ req.limit_q = str(1001) /\ req.offset_q = Absent
    /\ req.freight_id \in DOMAIN Freights
    /\ Cardinality(Selected(req.freight_id)) >= 2
    /\ InvalidArgument

\* exactly one of before_ts and before_id was sent
HalfCursor == (req.before_ts = Absent) # (req.before_id = Absent)

\* C17: a request with exactly one of before_ts and before_id gets the
\* status, rows and headers of the same request with neither, and is never
\* rejected for its cursor.
C17_HalfCursorIgnored ==
    (req # NoRequest /\ HalfCursor) =>
        /\ resp = find_matches(searches, req.freight_id, req.limit, req.offset,
                               Absent, Absent)
        /\ (req.limit \in 1..1000 /\ req.offset >= 0
              /\ req.freight_id \in DOMAIN Freights) => resp.status = 200

\* C17 witness: before_id = 1 alone was sent and the page begins with search
\* 2 and holds search 1, neither of which is before id 1
C17_Witness ==
    /\ HalfCursor
    /\ req.before_id = str(1)
    /\ resp.status = 200
    /\ resp.rows = <<2, 1>>
    /\ resp.headers # NoHeaders

\* the selected searches strictly before the cursor of the request, in the
\* pair (created_at, id)
BeforeCursor ==
    {i \in Selected(req.freight_id) :
        \/ searches[i].created_at < parse_ts(req.before_ts)
        \/ /\ searches[i].created_at = parse_ts(req.before_ts)
           /\ i < parse_int(req.before_id)}

\* the searches of S that come before row a in page order
Ahead(S, a) == {b \in S : Below(a, b)}

\* C18: the page for a request with a whole cursor and offset k > 0, over
\* the table as it was when the request was answered, is the selected
\* searches strictly before the cursor, newest first, without the first k of
\* them: its j-th row has exactly k + j - 1 such searches ahead of it, and it
\* holds min(limit, max(0, n - k)) rows where n is their number.  So the k
\* searches next below the cursor are on no continuation page.
C18_CursorAndOffset ==
    ( /\ resp.status = 200
      /\ req.before_ts # Absent /\ req.before_id # Absent
      /\ req.offset > 0
      /\ replay.seen = Len(searches) ) =>
        LET n == Cardinality(BeforeCursor)
        IN  /\ Range(resp.rows) \subseteq BeforeCursor
            /\ \A j \in 1..Len(resp.rows) :
                  Cardinality(Ahead(BeforeCursor, resp.rows[j]))
                     = req.offset + j - 1
            /\ Len(resp.rows)
                  = Min(req.limit, IF n > req.offset THEN n - req.offset ELSE 0)
            /\ \A i \in BeforeCursor :
                  Cardinality(Ahead(BeforeCursor, i)) < req.offset
                     => i \notin Range(resp.rows)

\* C18 witness: of three selected searches the first page held the newest,
\* and the page for its cursor with offset 1 holds the oldest: the search in
\* between was skipped
C18_Witness ==
    /\ resp.status = 200
    /\ req.before_ts # Absent /\ req.before_id # Absent
    /\ req.offset = 1 /\ req.limit = 1
    /\ replay.seen = Len(searches)
    /\ Cardinality(BeforeCursor) = 2
    /\ Len(resp.rows) = 1
    /\ \E i \in BeforeCursor : i \notin Range(resp.rows)
    /\ resp.headers # NoHeaders

\* some search is on two places of the pages of the session
Repeated ==
    \E i \in Range(Flat(sess.pages)) :
        Cardinality({k \in 1..Len(Flat(sess.pages)) : Flat(sess.pages)[k] = i}) > 1

\* C16: a session that pages with offsets 0, L, 2L, ... and no cursor is
\* exact while the table does not change: once ended it has returned the
\* selected searches, each exactly once.  It returns a search twice only
\* when a search was stored after it began, and there is such an execution
\* (the witness); a search that existed when it began is never missed by an
\* ended session, since stored searches only move down the order.
C16_OffsetDrift ==
    sess.mode = "offset" =>
        /\ FixedTable =>
              /\ Range(Flat(sess.pages)) = Selected(sess.freight_id)
              /\ ExactlyOnce(Selected(sess.freight_id), Flat(sess.pages))
        /\ Repeated => Len(searches) > sess.base
        /\ sess.phase = "done" =>
              Selected(sess.freight_id) \cap 1..sess.base
                 \subseteq Range(Flat(sess.pages))

\* C16 witness: a selected search was stored between two requests of an
\* offset session, with a created_at not before any other, and a search that
\* existed when the session began is on two of its pages
C16_Witness ==
    /\ sess.mode = "offset" /\ sess.late
    /\ \E j \in Selected(sess.freight_id) : j > sess.base /\ j <= replay.seen
    /\ \E i \in 1..sess.base, k, l \in 1..Len(sess.pages) :
          k # l /\ i \in Range(sess.pages[k]) /\ i \in Range(sess.pages[l])

\* C12: a create-search request with a valid body for a user_id that is no
\* User is answered 404 and leaves the stored searches and the open
\* transactions as they were; the stored searches change only by a create
\* that is answered 200, which appends exactly one row, with the next id and
\* the fields of the body, owned by an existing user.
C12_CreateOutcome ==
    [][ /\ cresp' # cresp =>
              LET s == cresp'.sent[1]
              IN  /\ (Validates(s) /\ s.user_id \notin Users)
                        => cresp'.status = 404
                  /\ cresp'.status = 404 =>
                        /\ s.user_id \notin Users
                        /\ searches' = searches /\ pending' = pending
                  /\ cresp'.status = 200 =>
                        /\ s.user_id \in Users
                        /\ Len(searches') = Len(searches) + 1
        /\ searches' # searches =>
              /\ Len(searches') = Len(searches) + 1
              /\ SubSeq(searches', 1, Len(searches)) = searches
              /\ LET row == searches'[Len(searches')]
                 IN  /\ row.user_id \in Users
                     /\ row.id = Len(searches')
                     /\ cresp'.status = 200
                     /\ cresp'.body = <<FreightSearchResponse(row)>>
                     /\ FreightSearchResponse(row)
                           = FreightSearchResponse(
                                FreightSearch(cresp'.sent[1], row.id, 0))
      ]_vars

\* C12 witness: a create for user 3, who does not exist, was answered 404
\* while a search is stored and another create is in flight
C12_Witness ==
    /\ cresp.status = 404
    /\ cresp.sent[1].user_id \notin Users
    /\ Len(searches) >= 1
    /\ InFlight # {}

\* hi is not below lo when both are present
InOrder(lo, hi) == lo = NULL \/ hi = NULL \/ hi >= lo

\* the three ranges of a search are in order
RangesInOrder(s) ==
    /\ InOrder(s.min_price, s.max_price)
    /\ InOrder(s.pickup_date_from, s.pickup_date_to)
    /\ InOrder(s.delivery_date_from, s.delivery_date_to)

\* C13: a create-search request whose body has max_price < min_price,
\* pickup_date_to < pickup_date_from or delivery_date_to <
\* delivery_date_from is answered 422, whoever its user is, and leaves the
\* stored searches and the open transactions as they were; no other body is
\* answered 422; every stored search and every search of an open transaction
\* has its three ranges in order.
C13_RangesValidated ==
    [][ /\ cresp' # cresp =>
              /\ cresp'.status = 422 <=> ~RangesInOrder(cresp'.sent[1])
              /\ cresp'.status = 422 =>
                    searches' = searches /\ pending' = pending
        /\ \A i \in 1..Len(searches') : RangesInOrder(searches'[i])
        /\ \A t \in {pending'[p][1] : p \in {q \in Procs : pending'[q] # <<>>}} :
              RangesInOrder(t.search)
      ]_vars

\* C13 witness: a body with delivery_date_to before delivery_date_from was
\* answered 422 while a search whose max_price equals its min_price is stored
C13_Witness ==
    /\ cresp.status = 422
    /\ cresp.sent[1].delivery_date_to < cresp.sent[1].delivery_date_from
    /\ cresp.sent[1].delivery_date_to # NULL
    /\ \E i \in 1..Len(searches) :
          searches[i].min_price # NULL
             /\ searches[i].max_price = searches[i].min_price

\* C15: the body of a 200 response of create-search is the stored record:
\* it has the id the store assigned and the created_at the store assigned.
C15_ReturnsCreatedAt ==
    cresp.status = 200 =>
        LET body == cresp.body[1]
        IN  /\ body.id \in 1..Len(searches)
            /\ body.user_id = searches[body.id].user_id
            /\ "created_at" \in DOMAIN body
            /\ body.created_at = searches[body.id].created_at

====
